---- MODULE Spec2Model ----
(***************************************************************************)
(* Model of the sentinel_timelapse acquisition selection and clipping      *)
(* pipeline: main.download_images, stac.search_stac_items,                 *)
(* stac.filter_items_by_geometry, geometry.bounds_to_geom_wgs84 and        *)
(* processing.clipped_asset.                                               *)
(*                                                                         *)
(* Geometry is modelled on an integer grid.  A rectangle is a record       *)
(* [xmin, ymin, xmax, ymax].  Every coordinate reference system is a       *)
(* translated copy of the global frame (EPSG:4326): a point with global    *)
(* coordinate w has coordinate w + Off(c) in the system with code c.       *)
(* A path is a sequence of components; an absolute path starts with "/".   *)
(***************************************************************************)
EXTENDS FiniteSets, Integers, Sequences, TLC

\* ------------------------------------------------------------------ bounds
\* Largest number of acquisitions the catalog query returns.
MaxItems == 2
\* Largest number of collaborator calls that fail in one run.
MaxFaults == 1
\* Calls made on one Timelapse object.
MaxOps == 4

\* --------------------------------------------------------------- constants
\* Python's None for max_cloud_pct (cloud filtering disabled).
None == -1
\* Pixel value from which a classification pixel counts as cloud.
CloudClass == 8
\* EPSG code of the global reference system the search geometry is put in.
WGS84 == 4326
\* Default of clipped_asset's input_crs parameter (a str).
ClipInputCrsDefault == "EPSG:24879"

\* ------------------------------------------------------------ CRS algebra
\* CRS identifiers as the caller writes them: a Python int is written by
\* its digits, a Python str with its text.  Two identifiers are equal in
\* Python (==) exactly when these texts are equal.
CrsIds == {"24879", "EPSG:24879", "4326", "EPSG:nonsense"}

\* The EPSG code an identifier resolves to; 0 when it does not resolve.
CrsCode(id) ==
    CASE id = "24879" -> 24879
      [] id = "EPSG:24879" -> 24879
      [] id = "4326" -> 4326
      [] id = "EPSG:4326" -> 4326
      [] id = "32719" -> 32719
      [] id = "EPSG:32719" -> 32719
      [] OTHER -> 0

\* Position of the origin of the system with this code in the global frame.
Off(code) ==
    CASE code = 4326 -> 0
      [] code = 24879 -> 1
      [] code = 32719 -> 3
      [] OTHER -> 0

Rect(a, b, c, d) == [xmin |-> a, ymin |-> b, xmax |-> c, ymax |-> d]

\* Reprojection of a rectangle from system `from` to system `to`
\* (box -> to_crs -> bounds, and rasterio's transform_bounds).
Reproject(from, to, r) ==
    LET d == Off(to) - Off(from)
    IN  Rect(r.xmin + d, r.ymin + d, r.xmax + d, r.ymax + d)

Min(a, b) == IF a <= b THEN a ELSE b
Max(a, b) == IF a >= b THEN a ELSE b

\* shapely's box(minx, miny, maxx, maxy) as the rectangle it covers: the
\* polygon is the same point set when two arguments come swapped.
Box(minx, miny, maxx, maxy) ==
    Rect(Min(minx, maxx), Min(miny, maxy), Max(minx, maxx), Max(miny, maxy))

\* geometry.bounds_to_geom_wgs84: the rectangle in the global system.
bounds_to_geom_wgs84(minx, miny, maxx, maxy, crs) ==
    Reproject(CrsCode(crs), WGS84, Box(minx, miny, maxx, maxy))

\* --------------------------------------------------------------- the catalog
AllAssets == {"visual", "B04", "SCL"}

\* A classification band of n pixels, the first nc of them cloud (class 9),
\* the others vegetation (class 4).
Pixels(nc, n) == [j \in 1..n |-> IF j <= nc THEN 9 ELSE 4]

\* The acquisitions of the remote catalog, in catalog order.  id is the
\* identifier split at "_"; geometry is the footprint and extent the data
\* extent of the rasters (both in the global system); scl is band 1 of the
\* classification layer as read through any window that meets the extent.
Catalog == <<
    [id |-> <<"S2A", "MSIL2A", "T1", "TA">>, geometry |-> Rect(0, 0, 6, 6),
     extent |-> Rect(0, 0, 6, 6), crs |-> 32719,
     scl |-> Pixels(1, 10), assets |-> AllAssets],
    [id |-> <<"S2B", "MSIL2A", "T2", "TA">>, geometry |-> Rect(2, 2, 4, 4),
     extent |-> Rect(2, 2, 4, 4), crs |-> 32719,
     scl |-> Pixels(2, 10), assets |-> AllAssets],
    [id |-> <<"S2A", "MSIL2A", "T3", "TA">>, geometry |-> Rect(3, 3, 8, 8),
     extent |-> Rect(3, 3, 8, 8), crs |-> 32719,
     scl |-> Pixels(0, 10), assets |-> AllAssets],
    [id |-> <<"S2B", "MSIL2A", "T4", "TA">>, geometry |-> Rect(0, 0, 6, 6),
     extent |-> Rect(4, 0, 6, 6), crs |-> 32719,
     scl |-> Pixels(9, 10), assets |-> {"visual", "SCL"}],
    [id |-> <<"S2A", "MSIL2A", "T1", "TB">>, geometry |-> Rect(0, 0, 6, 6),
     extent |-> Rect(0, 0, 6, 6), crs |-> 32719,
     scl |-> Pixels(0, 0), assets |-> AllAssets],
    [id |-> <<"S2B", "MSIL2A", "T6", "TA">>, geometry |-> Rect(0, 0, 6, 6),
     extent |-> Rect(0, 0, 6, 6), crs |-> 32719,
     scl |-> Pixels(9, 10), assets |-> {"visual", "B04"}]
>>

\* Regions of interest, in the global system.
WorldRegions == {Rect(2, 2, 4, 4), Rect(1, 1, 2, 2)}

\* A rectangle whose xmin and xmax are swapped (download_images and
\* cli.parse_bounds accept any four numbers), in the global system.
SwappedRegion == Rect(4, 2, 2, 4)

\* The default of download_images' input_crs.
DefaultInputCrs == "24879"

\* The bounds and CRS a caller passes: every region in every CRS
\* identifier, and the swapped rectangle in the default CRS.
CallerBounds ==
    {[crs |-> c, rect |-> Reproject(WGS84, CrsCode(c), w)] :
        w \in WorldRegions, c \in CrsIds}
    \cup {[crs |-> DefaultInputCrs,
           rect |-> Reproject(WGS84, CrsCode(DefaultInputCrs), SwappedRegion)]}

\* Asset lists a caller asks for.
AssetRequests == {<<"visual">>, <<"visual", "B04">>}

\* Output prefixes: one component, two components, absolute.
Prefixes == {<<"out">>, <<"a", "b">>, <<"/", "tmp", "x">>}

\* Cloud thresholds: filtering disabled, and a percentage.
CloudThresholds == {None, 10}

\* ---------------------------------------------------------------- paths
\* os.path.join of two paths: an absolute second path replaces the first.
Join(a, b) == IF b # <<>> /\ b[1] = "/" THEN b ELSE a \o b

\* The path that the text f'{prefix}_{asset_name}_{token}.tif' denotes: the
\* suffix is glued to the last component of the prefix, the separators of
\* the prefix stay separators.
FileNamePath(pfx, asset_name, token) ==
    [pfx EXCEPT ![Len(pfx)] = @ \o "_" \o asset_name \o "_" \o token \o ".tif"]

Parent(p) == SubSeq(p, 1, Len(p) - 1)

\* os.makedirs: the directory and every missing ancestor.
MakeDirs(dirs, p) == dirs \cup {SubSeq(p, 1, n) : n \in 1..Len(p)}

\* The filesystem at process start: the working directory (the empty
\* relative path) and the root.
InitialFs == [dirs |-> {<<>>, <<"/">>}, files |-> <<>>]

\* A file some earlier program left in an output directory.
OldFile == [item |-> <<>>, asset |-> "visual", href |-> <<>>, tagged |-> FALSE]

\* A filesystem in which the output directory of "visual" under prefix pfx
\* exists already and holds a file.
PreExisting(pfx) ==
    [dirs |-> MakeDirs(InitialFs.dirs, Join(pfx, <<"visual">>)),
     files |-> (Join(pfx, <<"visual", "old.tif">>) :> OldFile)]

\* The filesystems a run with prefix pfx can start on: an empty one, and
\* for the one-component prefix also one holding an output directory.
StartFilesystems(pfx) ==
    {InitialFs} \cup (IF Len(pfx) = 1 THEN {PreExisting(pfx)} ELSE {})

\* Variant of WriteFile: an existing file is kept and the content goes to
\* a fresh name beside it.
WriteFile_NoOverwrite(files, p, content) ==
    LET q0 == IF p \in DOMAIN files
              THEN [p EXCEPT ![Len(p)] = @ \o ".1"] ELSE p
    IN  [q \in DOMAIN files \cup {q0} |-> IF q = q0 THEN content ELSE files[q]]

\* A file written at path p (an existing file is replaced).
WriteFile(files, p, content) ==
    [q \in DOMAIN files \cup {p} |-> IF q = p THEN content ELSE files[q]]

\* ------------------------------------------------------- clipped_asset
NoRect == Rect(0, 0, 0, 0)
NoData == <<>>

\* Kinds of collaborator failure one clip call can meet.
ClipFaults == {"sign", "open", "read", "write", "tags"}

\* Variant of Intersects: closed intervals, touching edges overlap.
Intersects_Closed(b, src) ==
    /\ b.xmin <= src.xmax
    /\ b.xmax >= src.xmin
    /\ b.ymin <= src.ymax
    /\ b.ymax >= src.ymin

\* The open-interval overlap test of the clipping bounds with the raster's.
Intersects(b, src) ==
    /\ b.xmin < src.xmax
    /\ b.xmax > src.xmin
    /\ b.ymin < src.ymax
    /\ b.ymax > src.ymin

\* Unsigned and signed URL of an asset of an acquisition.
Href(item, asset_name) == <<"https", item.id, asset_name>>
SignedHref(item, asset_name) == <<"https", item.id, asset_name, "sig">>

\* Variant of TagHref: the URL the raster was opened with is tagged.
TagHref_Signed(item, asset_name) == SignedHref(item, asset_name)

\* processing.py 227: the href tag is taken from the acquisition as it was
\* passed in (planetary_computer.sign returns a signed copy).
TagHref(item, asset_name) == Href(item, asset_name)

\* Band 1 of the window read from an asset: the classification layer
\* carries the acquisition's classes; other assets' pixels are opaque.
ReadWindow(item, asset_name) ==
    IF asset_name = "SCL" THEN item.scl ELSE NoData

\* The file-output part of clipped_asset (inside the try block): `r` is the
\* outcome so far, with the window read.  Any failure leaves `r.ret` None.
ClipSave(item, asset_name, pfx, save_tiff, out_path, fault, r) ==
    LET op == IF out_path = <<>> THEN pfx ELSE out_path
        dirs0 == r.fs.dirs
        mkdirFails == op \notin dirs0 /\ Parent(op) \notin dirs0
        dirs1 == IF op \in dirs0 THEN dirs0 ELSE dirs0 \cup {op}
        r1 == [r EXCEPT !.fs.dirs = dirs1]
    IN  IF mkdirFails THEN r
        ELSE IF Len(item.id) < 3 THEN r1
        ELSE LET out_file == Join(op, FileNamePath(pfx, asset_name, item.id[3]))
                 content == [item |-> item.id, asset |-> asset_name,
                             href |-> TagHref(item, asset_name),
                             tagged |-> fault # "tags"]
             IN  IF ~save_tiff THEN r1
                 ELSE IF Parent(out_file) \notin dirs1 \/ fault = "write" THEN r1
                 ELSE [r1 EXCEPT !.fs.files = WriteFile(@, out_file, content),
                                 !.out_file = out_file,
                                 !.saved = (fault # "tags")]

\* Variant of LookupRaises: the lookup of a missing name is swallowed like
\* the failures inside the try block.
LookupRaises_Swallowed(item, asset_name) == FALSE

\* Variant of LookupRaises: a missing classification layer is no error.
LookupRaises_NotForScl(item, asset_name) ==
    asset_name # "SCL" /\ asset_name \notin item.assets

\* signed_item.assets[asset_name]: the lookup raises KeyError for a name
\* that is no key of the acquisition's asset mapping.
LookupRaises(item, asset_name) == asset_name \notin item.assets

\* Variant of ReturnsBundle: a requested file takes precedence over the
\* in-memory bundle.
ReturnsBundle_UnlessSaving(return_data_dic, save_tiff) ==
    return_data_dic /\ ~save_tiff

\* processing.py 199-200: the bundle is returned, before any file output,
\* whenever return_data_dic is set.
ReturnsBundle(return_data_dic, save_tiff) == return_data_dic

\* processing.clipped_asset.  `fault` is the collaborator failure this call
\* meets ("none" for none) and `fs` the filesystem before the call.  The
\* result records the exception raised ("" for a normal return), the value
\* returned ("None" or "dict"), and the effects of the call.
clipped_asset(item, xmin, ymin, xmax, ymax, in_crs, bounds_crs, asset_name, pfx, return_data_dic, save_tiff, out_path, fault, fs0) ==
    LET base == [raised |-> "", ret |-> "None", data |-> NoData,
                 href |-> <<>>, opened |-> FALSE, windowed |-> FALSE,
                 read |-> FALSE, window |-> NoRect, saved |-> FALSE,
                 out_file |-> <<>>, fs |-> fs0,
                 return_data_dic |-> return_data_dic, save_tiff |-> save_tiff,
                 checked |-> FALSE, bnds |-> NoRect, src_bounds |-> NoRect,
                 opened_href |-> <<>>]
        r0 == Rect(xmin, ymin, xmax, ymax)
        reproj == in_crs # bounds_crs
        b1 == IF reproj
              THEN Reproject(CrsCode(in_crs), CrsCode(bounds_crs),
                             Box(xmin, ymin, xmax, ymax))
              ELSE r0
    IN  IF reproj /\ (CrsCode(in_crs) = 0 \/ CrsCode(bounds_crs) = 0)
            THEN [base EXCEPT !.raised = "CRSError"]
        ELSE IF fault = "sign" THEN [base EXCEPT !.raised = "SignError"]
        ELSE IF LookupRaises(item, asset_name)
            THEN [base EXCEPT !.raised = "KeyError"]
        ELSE IF fault = "open" THEN base
        ELSE IF CrsCode(bounds_crs) = 0
            THEN [base EXCEPT !.opened = TRUE,
                              !.opened_href = SignedHref(item, asset_name)]
        ELSE LET bnds == Reproject(CrsCode(bounds_crs), item.crs,
                                   Box(b1.xmin, b1.ymin, b1.xmax, b1.ymax))
                 src_bounds == Reproject(WGS84, item.crs, item.extent)
                 o == [base EXCEPT !.opened = TRUE, !.checked = TRUE,
                                   !.opened_href = SignedHref(item, asset_name),
                                   !.bnds = bnds, !.src_bounds = src_bounds]
                 w == [o EXCEPT !.windowed = TRUE, !.window = bnds]
             IN  IF ~Intersects(bnds, src_bounds) THEN o
                 ELSE IF fault = "read" THEN w
                 ELSE IF ReturnsBundle(return_data_dic, save_tiff)
                     THEN [w EXCEPT !.read = TRUE, !.ret = "dict",
                                    !.data = ReadWindow(item, asset_name),
                                    !.href = SignedHref(item, asset_name)]
                 ELSE ClipSave(item, asset_name, pfx, save_tiff, out_path,
                               fault, [w EXCEPT !.read = TRUE])

\* --------------------------------------------------------------- stac
\* Variant of Contains: overlap of the interiors is enough (intersects).
Contains_Overlap(footprint, g) ==
    /\ g.xmin < footprint.xmax
    /\ g.xmax > footprint.xmin
    /\ g.ymin < footprint.ymax
    /\ g.ymax > footprint.ymin

\* Variant of Contains: the footprint's boundary must stay clear of g
\* (contains_properly).
Contains_Strict(footprint, g) ==
    /\ footprint.xmin < g.xmin
    /\ g.xmax < footprint.xmax
    /\ footprint.ymin < g.ymin
    /\ g.ymax < footprint.ymax

\* shapely's contains for two rectangles with interior: no point of g lies
\* outside footprint (boundaries may touch).
Contains(footprint, g) ==
    /\ footprint.xmin <= g.xmin
    /\ g.xmax <= footprint.xmax
    /\ footprint.ymin <= g.ymin
    /\ g.ymax <= footprint.ymax

\* stac.filter_items_by_geometry: the list comprehension, front to back.
RECURSIVE filter_items_by_geometry(_, _)
filter_items_by_geometry(its, bbox) ==
    IF its = <<>> THEN <<>>
    ELSE (IF Contains(Head(its).geometry, bbox) THEN <<Head(its)>> ELSE <<>>)
         \o filter_items_by_geometry(Tail(its), bbox)

\* The lists a catalog query can return: acquisitions of the catalog, in
\* catalog order, at most MaxItems of them.
RECURSIVE Pick(_, _)
Pick(S, from) ==
    IF from > Len(Catalog) THEN <<>>
    ELSE (IF from \in S THEN <<Catalog[from]>> ELSE <<>>) \o Pick(S, from + 1)

SearchResults ==
    {Pick(S, 1) : S \in {T \in SUBSET (1..Len(Catalog)) : Cardinality(T) <= MaxItems}}

\* ------------------------------------------------------ download_images
VARIABLES
    bounds,          \* the caller's rectangle, in the caller's CRS
    input_crs,       \* the caller's CRS identifier
    assets,          \* the requested asset names, a list
    prefix,          \* the output prefix, a path
    max_cloud_pct,   \* the cloud threshold, or None
    bbox_geom,       \* the search geometry (global system)
    items,           \* the catalog query's result
    filtered_items,  \* the acquisitions left by the geometric filter
    stats,           \* the statistics accumulator
    pc,              \* position of the run in download_images
    i,               \* index in filtered_items of the acquisition in hand
    k,               \* index in assets of the asset in hand
    fs,              \* the filesystem: directories and files
    error,           \* the exception the run ended with, "" for none
    faults,          \* collaborator failures still to come
    calls,           \* history of the clipped_asset calls of the run
    queries,         \* history of the catalog queries of the run
    prev,            \* what an earlier run with the same inputs left
    geo,             \* the _geo_initialized flags of the two modules, and
                     \* the number of runs of use_rasterio_bundled_data
    tl,              \* the Timelapse object of core.py
    tl_calls,        \* history of the calls made on the Timelapse object
    cli              \* the command line process: arguments, streams, exit

inputs == <<bounds, input_crs, assets, prefix, max_cloud_pct>>
vars == <<bounds, input_crs, assets, prefix, max_cloud_pct, bbox_geom, items,
          filtered_items, stats, pc, i, k, fs, error, faults, calls,
          queries, prev, geo, tl, tl_calls, cli>>

\* What a download_images run leaves alone: the Timelapse object and the
\* command line process around the run.
outside == <<tl, tl_calls, cli>>

\* The process right after the import of the package: no module has
\* initialised the geospatial runtime (geometry.py 13, processing.py 20).
GeoFresh == [geometry |-> FALSE, processing |-> FALSE, runs |-> 0]

\* _ensure_geo_initialized of module m (geometry.py 16-27, processing.py
\* 23-34): use_rasterio_bundled_data runs unless the module's own flag is
\* set, and sets that flag.
EnsureGeo(g, m) ==
    IF g[m] THEN g ELSE [g EXCEPT ![m] = TRUE, !.runs = @ + 1]

\* A Timelapse object after construction (core.py 2-3).
NewTimelapse == [is_running |-> FALSE]

\* No command line process: download_images is called as a library.
NoCli == [argv |-> [bounds |-> <<>>, input_crs |-> ""], stdout |-> <<>>,
          stderr |-> <<>>, exit_status |-> None]

\* number of elements of a band that are >= lo: (band >= lo).sum()
CountGE(band, lo) == Cardinality({j \in DOMAIN band : band[j] >= lo})

\* main.py 139: cloud_pct = 100 * (band >= 8).sum() / (band >= 0).sum() in
\* numpy arithmetic, as the fraction num / den; the division of 0 by 0
\* gives nan (with a warning, no exception).
CloudPct(band) ==
    LET cloud == CountGE(band, CloudClass)
        valid == CountGE(band, 0)
    IN  IF valid = 0
        THEN [nan |-> TRUE, num |-> 0, den |-> 0]
        ELSE [nan |-> FALSE, num |-> 100 * cloud, den |-> valid]

\* Variant of CloudExceeds: the threshold itself already rejects (>=).
CloudExceeds_Inclusive(band, limit) ==
    LET p == CloudPct(band)
    IN  ~p.nan /\ p.num >= limit * p.den

\* Variant of CloudExceeds: an undefined percentage rejects.
CloudExceeds_NanRejects(band, limit) ==
    LET p == CloudPct(band)
    IN  p.nan \/ p.num > limit * p.den

\* main.py 142: `cloud_pct > max_cloud_pct`; nan compares False with every
\* number.
CloudExceeds(band, limit) ==
    LET p == CloudPct(band)
    IN  ~p.nan /\ p.num > limit * p.den

\* The statistics accumulator as download_images creates it (main.py 80-84).
NewStats == [total_images |-> 0, cloud_filtered |-> 0, asset_counts |-> <<>>]

\* No earlier run: the record a finished run leaves for a second run with
\* the same inputs holds its statistics, the catalog's answer, its calls
\* and the paths of the files on disk.
NoPrev == [set |-> FALSE, stats |-> NewStats, items |-> <<>>, calls |-> <<>>,
           paths |-> {}]

\* The catalog is deterministic: a second run gets the first run's answer.
ItemChoices == IF prev.set THEN {prev.items} ELSE SearchResults

\* The failure the next clip call meets.  The raster collaborators are
\* deterministic: in a second run the call meets what the same call of the
\* first run met.
FaultChoices ==
    IF prev.set
    THEN (IF Len(calls) < Len(prev.calls)
          THEN {prev.calls[Len(calls) + 1].fault} ELSE {"none"})
    ELSE {"none"} \cup (IF faults > 0 THEN ClipFaults ELSE {})

\* The search window of the run (start_date, end_date).
StartDate == "2014-08-01"
EndDate == "2023-01-31"

\* The canonical optical-imagery collection.
DefaultCollection == "sentinel-2-l2a"

\* The arguments of catalog.search in stac.search_stac_items.
CatalogQuery(bbox, datetime, collection) ==
    [collections |-> <<collection>>, intersects |-> bbox, datetime |-> datetime]

Init ==
    /\ \E b \in CallerBounds :
          /\ input_crs = b.crs
          /\ bounds = b.rect
    /\ assets \in AssetRequests
    /\ prefix \in Prefixes
    /\ max_cloud_pct \in CloudThresholds
    /\ bbox_geom = NoRect
    /\ items = <<>>
    /\ filtered_items = <<>>
    /\ stats = NewStats
    /\ pc = "geom"
    /\ i = 1
    /\ k = 1
    /\ fs \in StartFilesystems(prefix)
    /\ error = ""
    /\ faults = MaxFaults
    /\ calls = <<>>
    /\ queries = <<>>
    /\ prev = NoPrev
    /\ geo = GeoFresh
    /\ tl = NewTimelapse
    /\ tl_calls = <<>>
    /\ cli = NoCli

\* Variant of LoopPc: the classification layer is fetched whatever the
\* threshold.
LoopPc_AlwaysCloud(j, n) == IF j > n THEN "done" ELSE "cloud"

\* Variant of LoopPc: no classification layer is fetched, acquisitions go
\* to asset extraction at once.
LoopPc_SkipCloud(j, n) == IF j > n THEN "done" ELSE "asset"

\* Where the loop over filtered_items stands when acquisition j is next.
LoopPc(j, n) ==
    IF j > n THEN "done"
    ELSE IF max_cloud_pct # None THEN "cloud" ELSE "asset"

\* main.py 95-101: the search geometry.
BoundsToGeom ==
    /\ pc = "geom"
    /\ geo' = EnsureGeo(geo, "geometry")
    /\ IF CrsCode(input_crs) = 0
       THEN /\ pc' = "raised"
            /\ error' = "CRSError"
            /\ UNCHANGED bbox_geom
       ELSE /\ bbox_geom' = bounds_to_geom_wgs84(bounds.xmin, bounds.ymin,
                                                 bounds.xmax, bounds.ymax,
                                                 input_crs)
            /\ pc' = "search"
            /\ UNCHANGED error
    /\ UNCHANGED <<inputs, prev, outside, queries, items, filtered_items, stats, i, k, fs, faults, calls>>

\* Variant of SearchFailed: the failure is swallowed and the search is
\* made again.
SearchFailed_Retry == [pc |-> "search", error |-> ""]

\* stac.py 54-66 and main.py 104 have no handler: a failure of the catalog
\* leaves search_stac_items and download_images as an exception.
SearchFailed == [pc |-> "raised", error |-> "ConnectionError"]

\* main.py 104 and stac.search_stac_items: one catalog query, whose failure
\* propagates.
Search ==
    /\ pc = "search"
    /\ LET q == CatalogQuery(bbox_geom, StartDate \o "/" \o EndDate,
                             DefaultCollection)
       IN  \/ /\ items' \in ItemChoices
              /\ queries' = Append(queries, q)
              /\ pc' = "filter"
              /\ UNCHANGED <<error, faults>>
           \/ /\ faults > 0 /\ ~prev.set
              /\ faults' = faults - 1
              /\ \/ queries' = queries            \* Client.open fails
                 \/ queries' = Append(queries, q)  \* the query fails
              /\ pc' = SearchFailed.pc
              /\ error' = SearchFailed.error
              /\ UNCHANGED items
    /\ UNCHANGED <<inputs, prev, outside, geo, bbox_geom, filtered_items, stats, i, k, fs, calls>>

\* Variant of Filter: the output directory is created as soon as the
\* query has answered.
Filter_EagerDirs ==
    /\ pc = "filter"
    /\ filtered_items' = filter_items_by_geometry(items, bbox_geom)
    /\ stats' = [stats EXCEPT !.total_images = Len(filtered_items')]
    /\ fs' = [fs EXCEPT !.dirs = MakeDirs(@, prefix)]
    /\ pc' = "mkdirs"
    /\ UNCHANGED <<inputs, prev, outside, geo, queries, bbox_geom, items, i, k, error, faults, calls>>

\* main.py 108-109: the geometric filter and total_images.
Filter ==
    /\ pc = "filter"
    /\ filtered_items' = filter_items_by_geometry(items, bbox_geom)
    /\ stats' = [stats EXCEPT !.total_images = Len(filtered_items')]
    /\ pc' = "mkdirs"
    /\ UNCHANGED <<inputs, prev, outside, geo, queries, bbox_geom, items, i, k, fs, error, faults, calls>>

\* Variant of AssetDirs: no asset directory is created.
AssetDirs_None(dirs, pfx, as) == dirs

\* The directories after main.py 111-121.
RECURSIVE AssetDirs(_, _, _)
AssetDirs(dirs, pfx, as) ==
    IF as = <<>> THEN dirs
    ELSE AssetDirs(MakeDirs(dirs, Join(pfx, <<Head(as)>>)), pfx, Tail(as))

\* Variant of ZeroCounts: no counter exists before the first clip.
ZeroCounts_Lazy(as) == <<>>

\* main.py 116-117: one counter per requested asset, at 0.
ZeroCounts(as) == [a \in {as[j] : j \in DOMAIN as} |-> 0]

\* main.py 111-121: output directories and zeroed asset counters.
MakeOutputDirs ==
    /\ pc = "mkdirs"
    /\ fs' = [fs EXCEPT !.dirs = AssetDirs(MakeDirs(@, prefix), prefix, assets)]
    /\ stats' = [stats EXCEPT !.asset_counts = ZeroCounts(assets)]
    /\ i' = 1
    /\ k' = 1
    /\ pc' = LoopPc(1, Len(filtered_items))
    /\ UNCHANGED <<inputs, prev, outside, geo, queries, bbox_geom, items, filtered_items, error, faults, calls>>

\* The entry a clipped_asset call leaves in the history; `touched` tells
\* whether the call changed the filesystem `before`.
CallEntry(j, item, asset_name, mode, fault, r, before) ==
    [idx |-> j, id |-> item.id, asset |-> asset_name, mode |-> mode,
     fault |-> fault, raised |-> r.raised, ret |-> r.ret, data |-> r.data,
     opened |-> r.opened, windowed |-> r.windowed, read |-> r.read,
     window |-> r.window, saved |-> r.saved, out_file |-> r.out_file,
     touched |-> (r.fs # before),
     return_data_dic |-> r.return_data_dic, save_tiff |-> r.save_tiff,
     checked |-> r.checked, bnds |-> r.bnds, src_bounds |-> r.src_bounds,
     href |-> r.href, opened_href |-> r.opened_href]

\* Variant of Rejects: a missing classification layer rejects (fail-closed).
Rejects_FailClosed(r, limit) == r.ret = "None" \/ CloudExceeds(r.data, limit)

\* main.py 136-142: the acquisition is rejected when classification data
\* came back and its cloud percentage exceeds the threshold.
Rejects(r, limit) == r.ret # "None" /\ CloudExceeds(r.data, limit)

\* main.py 126-144: the classification-layer clip and the admission test.
CloudCheck ==
    /\ pc = "cloud"
    /\ \E fault \in FaultChoices :
        LET item == filtered_items[i]
            r == clipped_asset(item, bounds.xmin, bounds.ymin, bounds.xmax,
                               bounds.ymax, ClipInputCrsDefault, input_crs,
                               "SCL", <<"clipped">>, TRUE, FALSE, <<>>,
                               fault, fs)
        IN  /\ faults' = IF fault = "none" THEN faults ELSE faults - 1
            /\ calls' = Append(calls, CallEntry(i, item, "SCL", "data", fault, r, fs))
            /\ fs' = r.fs
            /\ IF r.raised # ""
               THEN /\ pc' = "raised"
                    /\ error' = r.raised
                    /\ UNCHANGED <<stats, i, k>>
               ELSE IF Rejects(r, max_cloud_pct)
               THEN /\ stats' = [stats EXCEPT !.cloud_filtered = @ + 1]
                    /\ i' = i + 1
                    /\ k' = 1
                    /\ pc' = LoopPc(i + 1, Len(filtered_items))
                    /\ UNCHANGED error
               ELSE /\ pc' = "asset"
                    /\ k' = 1
                    /\ UNCHANGED <<stats, i, error>>
    /\ geo' = EnsureGeo(geo, "processing")
    /\ UNCHANGED <<inputs, prev, outside, queries, bbox_geom, items, filtered_items>>

\* Variant of CountAsset: only a clip that wrote its file is counted.
CountAsset_Successes(counts, a, r) ==
    IF r.out_file # <<>> THEN [counts EXCEPT ![a] = @ + 1] ELSE counts

\* The change of asset_counts after the clip of asset a returned.
CountAsset(counts, a, r) == [counts EXCEPT ![a] = @ + 1]

\* main.py 147-158: the clip of one requested asset and its counter.
ClipAsset ==
    /\ pc = "asset"
    /\ \E fault \in FaultChoices :
        LET item == filtered_items[i]
            a == assets[k]
            r == clipped_asset(item, bounds.xmin, bounds.ymin, bounds.xmax,
                               bounds.ymax, ClipInputCrsDefault, input_crs,
                               a, prefix, FALSE, TRUE, Join(prefix, <<a>>),
                               fault, fs)
        IN  /\ faults' = IF fault = "none" THEN faults ELSE faults - 1
            /\ calls' = Append(calls, CallEntry(i, item, a, "file", fault, r, fs))
            /\ fs' = r.fs
            /\ IF r.raised # ""
               THEN /\ pc' = "raised"
                    /\ error' = r.raised
                    /\ UNCHANGED <<stats, i, k>>
               ELSE /\ stats' = [stats EXCEPT !.asset_counts = CountAsset(@, a, r)]
                    /\ UNCHANGED error
                    /\ IF k < Len(assets)
                       THEN /\ k' = k + 1
                            /\ UNCHANGED <<i, pc>>
                       ELSE /\ k' = 1
                            /\ i' = i + 1
                            /\ pc' = LoopPc(i + 1, Len(filtered_items))
    /\ geo' = EnsureGeo(geo, "processing")
    /\ UNCHANGED <<inputs, prev, outside, queries, bbox_geom, items, filtered_items>>

Next ==
    \/ BoundsToGeom
    \/ Search
    \/ Filter
    \/ MakeOutputDirs
    \/ CloudCheck
    \/ ClipAsset

Spec == Init /\ [][Next]_vars

\* ------------------------------------------------- two runs in a row
\* A finished run is followed by a second call of download_images with the
\* same arguments, on the filesystem the first run left.
Rerun ==
    /\ pc = "done"
    /\ ~prev.set
    /\ prev' = [set |-> TRUE, stats |-> stats, items |-> items,
                calls |-> calls, paths |-> DOMAIN fs.files]
    /\ bbox_geom' = NoRect
    /\ items' = <<>>
    /\ filtered_items' = <<>>
    /\ stats' = NewStats
    /\ pc' = "geom"
    /\ i' = 1
    /\ k' = 1
    /\ error' = ""
    /\ faults' = MaxFaults
    /\ calls' = <<>>
    /\ queries' = <<>>
    /\ UNCHANGED <<inputs, outside, geo, fs>>

RerunNext ==
    \/ Next
    \/ Rerun

SpecRerun == Init /\ [][RerunNext]_vars

\* ------------------------------------------- clipped_asset called directly
\* Values of the out_path argument: absent, or a directory of the caller.
OutPaths == {<<>>, <<"out">>}

\* A caller of the library is about to call clipped_asset with a rectangle
\* given in bounds_crs (held in input_crs) and a file prefix.
ClipInit ==
    /\ \E w \in WorldRegions, c \in CrsIds :
          /\ input_crs = c
          /\ bounds = Reproject(WGS84, CrsCode(c), w)
    /\ assets = <<>>
    /\ prefix \in Prefixes
    /\ max_cloud_pct = None
    /\ bbox_geom = NoRect
    /\ items = <<>>
    /\ filtered_items = <<>>
    /\ stats = NewStats
    /\ pc = "api"
    /\ i = 1
    /\ k = 1
    /\ fs \in StartFilesystems(prefix)
    /\ error = ""
    /\ faults = MaxFaults
    /\ calls = <<>>
    /\ queries = <<>>
    /\ prev = NoPrev
    /\ geo = GeoFresh
    /\ tl = NewTimelapse
    /\ tl_calls = <<>>
    /\ cli = NoCli

\* One call of clipped_asset with any combination of its two output flags.
\* The rectangle is given in the CRS it is declared in (input_crs equal to
\* bounds_crs) or the declared CRS is left at its default.
DirectClip ==
    /\ pc = "api"
    /\ \E n \in DOMAIN Catalog, a \in AllAssets, return_data_dic \in BOOLEAN,
          save_tiff \in BOOLEAN, out_path \in OutPaths,
          in_crs \in {input_crs, ClipInputCrsDefault},
          fault \in {"none"} \cup (IF faults > 0 THEN ClipFaults ELSE {}) :
        LET item == Catalog[n]
            r == clipped_asset(item, bounds.xmin, bounds.ymin, bounds.xmax,
                               bounds.ymax, in_crs, input_crs, a, prefix,
                               return_data_dic, save_tiff, out_path, fault, fs)
        IN  /\ faults' = IF fault = "none" THEN faults ELSE faults - 1
            /\ calls' = Append(calls, CallEntry(1, item, a, "direct", fault, r, fs))
            /\ fs' = r.fs
            /\ error' = r.raised
            /\ pc' = IF r.raised # "" THEN "raised" ELSE "returned"
    /\ geo' = EnsureGeo(geo, "processing")
    /\ UNCHANGED <<inputs, prev, outside, queries, bbox_geom, items, filtered_items, stats, i, k>>

ClipNext == DirectClip

SpecClip == ClipInit /\ [][ClipNext]_vars

\* ------------------------------------------------------- core.Timelapse
\* Frames handed to process_frame.
Frames == {"test_frame_data", "f2"}

\* The library state around a Timelapse object: no download_images run.
NoRun ==
    /\ bounds = NoRect
    /\ input_crs = DefaultInputCrs
    /\ assets = <<>>
    /\ prefix = <<"out">>
    /\ max_cloud_pct = None
    /\ bbox_geom = NoRect
    /\ items = <<>>
    /\ filtered_items = <<>>
    /\ stats = NewStats
    /\ i = 1
    /\ k = 1
    /\ fs = InitialFs
    /\ error = ""
    /\ faults = MaxFaults
    /\ calls = <<>>
    /\ queries = <<>>
    /\ prev = NoPrev
    /\ geo = GeoFresh

\* Timelapse() has been constructed.
CoreInit ==
    /\ NoRun
    /\ pc = "core"
    /\ tl = NewTimelapse
    /\ tl_calls = <<>>
    /\ cli = NoCli

\* The entry a call on the Timelapse object leaves in the history: the
\* method, its argument, the flag it found, the value returned and the
\* line printed.
TlEntry(op, frame, ret, printed) ==
    [op |-> op, frame |-> frame, was_running |-> tl.is_running,
     ret |-> ret, printed |-> printed]

run == <<bounds, input_crs, assets, prefix, max_cloud_pct, bbox_geom, items,
         filtered_items, stats, pc, i, k, fs, error, faults, calls, queries,
         prev, geo>>

\* core.py 5-7.
Start ==
    /\ pc = "core"
    /\ Len(tl_calls) < MaxOps
    /\ tl' = [tl EXCEPT !.is_running = TRUE]
    /\ tl_calls' = Append(tl_calls, TlEntry("start", "", "None", "Timelapse started."))
    /\ UNCHANGED <<run, cli>>

\* core.py 9-11.
Stop ==
    /\ pc = "core"
    /\ Len(tl_calls) < MaxOps
    /\ tl' = [tl EXCEPT !.is_running = FALSE]
    /\ tl_calls' = Append(tl_calls, TlEntry("stop", "", "None", "Timelapse stopped."))
    /\ UNCHANGED <<run, cli>>

\* core.py 17-18: the frame is printed; the method ends without a return
\* statement, so its value is None.
FrameResult(frame) ==
    [ret |-> "None", printed |-> "Processing frame: " \o frame]

\* core.py 13-18.
ProcessFrame ==
    /\ pc = "core"
    /\ Len(tl_calls) < MaxOps
    /\ \E frame \in Frames :
          LET r == IF ~tl.is_running
                   THEN [ret |-> "None",
                         printed |-> "Timelapse is not running. Please start it first."]
                   ELSE FrameResult(frame)
          IN  tl_calls' = Append(tl_calls,
                                 TlEntry("process_frame", frame, r.ret, r.printed))
    /\ UNCHANGED <<run, cli, tl>>

CoreNext ==
    \/ Start
    \/ Stop
    \/ ProcessFrame

SpecCore == CoreInit /\ [][CoreNext]_vars

\* ------------------------------------------------------------- cli.main
\* Values of args.bounds: four numbers, a value that is no number, three
\* values.
BoundsArgs == {<<"2", "2", "4", "4">>, <<"2", "x", "4", "4">>, <<"2", "2", "4">>}

\* Values of args.input_crs.
CrsArgs == {"4326", "24879", "EPSG:nonsense"}

\* float(x) succeeds on the decimal numerals.
IsNumeric(x) == \E n \in 0..9 : ToString(n) = x

\* float(x) of a numeral.
Float(x) == CHOOSE n \in 0..9 : ToString(n) = x

\* cli.parse_bounds: the tuple of the four values, or ValueError.
parse_bounds(bounds_str) ==
    IF Len(bounds_str) # 4
    THEN [raised |-> "ValueError", value |-> NoRect,
          msg |-> "Bounds must be exactly 4 values: xmin ymin xmax ymax"]
    ELSE IF \E n \in DOMAIN bounds_str : ~IsNumeric(bounds_str[n])
    THEN [raised |-> "ValueError", value |-> NoRect,
          msg |-> "All bounds values must be numeric"]
    ELSE [raised |-> "", msg |-> "",
          value |-> Rect(Float(bounds_str[1]), Float(bounds_str[2]),
                         Float(bounds_str[3]), Float(bounds_str[4]))]

\* cli.py 187-189: a text of digits becomes the integer it denotes, any
\* other text is kept.  CrsIds writes an integer identifier by its digits,
\* so the identifier of the result is written like the text.
CliCrs(text) == text

\* The exceptions that are instances of ValueError.
ValueErrors == {"ValueError"}

\* The line the handlers of cli.py 218-229 print for an exception.
ErrorLine(exc, msg) ==
    IF exc \in ValueErrors THEN "Error: " \o msg
    ELSE IF exc = "KeyboardInterrupt" THEN "Operation cancelled by user."
    ELSE "Unexpected error: " \o msg

\* Variant of Failed: the message is printed and main returns.
Failed_NoExit(c, exc, msg) ==
    [c EXCEPT !.stderr = Append(@, ErrorLine(exc, msg))]

\* cli.py 218-229: every handler prints to stderr and calls sys.exit(1).
Failed(c, exc, msg) ==
    [c EXCEPT !.stderr = Append(@, ErrorLine(exc, msg)), !.exit_status = 1]

\* main() after parser.parse_args() returned.
CliInit ==
    /\ bounds = NoRect
    /\ input_crs = DefaultInputCrs
    /\ assets \in AssetRequests
    /\ prefix = <<"out">>
    /\ max_cloud_pct = 10
    /\ bbox_geom = NoRect
    /\ items = <<>>
    /\ filtered_items = <<>>
    /\ stats = NewStats
    /\ pc = "cli"
    /\ i = 1
    /\ k = 1
    /\ fs = InitialFs
    /\ error = ""
    /\ faults = MaxFaults
    /\ calls = <<>>
    /\ queries = <<>>
    /\ prev = NoPrev
    /\ geo = GeoFresh
    /\ tl = NewTimelapse
    /\ tl_calls = <<>>
    /\ \E b \in BoundsArgs, c \in CrsArgs :
          cli = [NoCli EXCEPT !.argv = [bounds |-> b, input_crs |-> c]]

\* What the steps of main outside download_images leave alone.
pipeline == <<assets, prefix, max_cloud_pct, bbox_geom, items, filtered_items,
              stats, i, k, fs, faults, calls, queries, prev, geo, tl, tl_calls>>

\* cli.py 181-189: the bounds and the CRS of the arguments.
CliParse ==
    /\ pc = "cli"
    /\ LET r == parse_bounds(cli.argv.bounds)
       IN  IF r.raised # ""
           THEN /\ cli' = Failed(cli, r.raised, r.msg)
                /\ error' = r.raised
                /\ pc' = "exited"
                /\ UNCHANGED <<bounds, input_crs>>
           ELSE /\ bounds' = r.value
                /\ input_crs' = CliCrs(cli.argv.input_crs)
                /\ pc' = "geom"
                /\ UNCHANGED <<cli, error>>
    /\ UNCHANGED pipeline

\* Ctrl+C while download_images runs: KeyboardInterrupt leaves it.
Interrupt ==
    /\ pc \in {"geom", "search", "filter", "mkdirs", "cloud", "asset"}
    /\ pc' = "raised"
    /\ error' = "KeyboardInterrupt"
    /\ UNCHANGED <<bounds, input_crs, cli, pipeline>>

\* cli.py 212-229: the statistics after a normal return, the handlers
\* after an exception.
CliFinish ==
    /\ pc \in {"done", "raised"}
    /\ cli' = IF pc = "done"
              THEN [cli EXCEPT !.stdout = <<"Processing complete!", stats>>,
                               !.exit_status = 0]
              ELSE Failed(cli, error, error)
    /\ pc' = "exited"
    /\ UNCHANGED <<bounds, input_crs, error, pipeline>>

CliNext ==
    \/ CliParse
    \/ Next
    \/ Interrupt
    \/ CliFinish

SpecCli == CliInit /\ [][CliNext]_vars

\* ------------------------------------------------------------ properties
\* The requested asset names.
Requested == {assets[j] : j \in DOMAIN assets}

\* The calls of the history that clip a requested asset to a file.
FileCalls == {j \in DOMAIN calls : calls[j].mode = "file"}

\* The calls of the history that fetch the classification layer.
SclCalls == {j \in DOMAIN calls : calls[j].mode = "data"}

\* Acquisition idx went on to asset extraction.
Admitted(idx) ==
    \/ i = idx /\ pc = "asset"
    \/ \E j \in FileCalls : calls[j].idx = idx

\* C1: when download_images returns normally, asset_counts[a] is the number
\* of acquisitions whose clip of asset a succeeded (its file was written);
\* clips that ended as "no result" are not counted.
C1_CountsAreSuccesses ==
    pc = "done" =>
        \A a \in Requested :
            stats.asset_counts[a] =
                Cardinality({j \in FileCalls : calls[j].asset = a /\ calls[j].saved})

\* C2: the only error clipped_asset raises is the one for an asset name
\* absent from the acquisition's asset mapping; every other failure of a
\* call ends as the return value None.
C2_OnlyUnknownAssetRaises ==
    \A j \in DOMAIN calls : calls[j].raised \in {"", "KeyError"}

\* The configuration-class errors that end a run.
FatalErrors == {"CRSError", "ConnectionError", "KeyError"}

\* C3: a non-fatal failure of a clip (remote I/O failure at signing, opening
\* or reading, no intersection, unexpected error) does not end the run:
\* the run raises only fatal errors, and a run that returned attempted
\* every requested asset of every admitted acquisition.
C3_FailuresAreIsolated ==
    /\ pc = "raised" => error \in FatalErrors
    /\ pc = "done" =>
          \A idx \in 1..Len(filtered_items) :
              Admitted(idx) =>
                  \A a \in Requested :
                      \E j \in FileCalls : calls[j].idx = idx /\ calls[j].asset = a

\* C4: a clip of an asset name that is no key of the signed acquisition's
\* asset mapping raises KeyError before any raster is opened and without
\* writing anything, and the error ends the run of download_images.
C4_UnknownAssetPropagates ==
    \A j \in DOMAIN calls :
        (calls[j].fault # "sign"
         /\ calls[j].asset \notin filtered_items[calls[j].idx].assets) =>
            /\ calls[j].raised = "KeyError"
            /\ ~calls[j].opened
            /\ ~calls[j].touched
            /\ calls[j].out_file = <<>>
            /\ j = Len(calls)
            /\ pc = "raised"
            /\ error = "KeyError"

\* A run that ended with the unknown-asset error of a requested asset.
C4_Witness ==
    /\ pc = "raised"
    /\ error = "KeyError"
    /\ calls # <<>>
    /\ calls[Len(calls)].asset = "B04"
    /\ calls[Len(calls)].mode = "file"
    /\ fs.files # <<>>

\* C5: every clip of a run computes its pixel window from the caller's
\* rectangle taken in the caller's CRS: the bounds handed to the window
\* computation are the caller's bounds transformed from that CRS into the
\* raster's CRS.
C5_WindowFromCallerCrs ==
    \A j \in DOMAIN calls :
        calls[j].windowed =>
            calls[j].window =
                Reproject(CrsCode(input_crs), filtered_items[calls[j].idx].crs, bounds)

\* The classification band of call j exceeds the threshold as a percentage.
Exceeds(j) ==
    100 * CountGE(calls[j].data, CloudClass) > max_cloud_pct * CountGE(calls[j].data, 0)

\* C6: with cloud filtering enabled and classification data returned, an
\* acquisition is rejected iff 100 * (pixels >= 8) / (pixels >= 0) is
\* strictly greater than max_cloud_pct; every rejection adds exactly 1 to
\* cloud_filtered and no requested asset of a rejected acquisition is
\* clipped; a fraction equal to the threshold is admitted.
C6_CloudAdmission ==
    max_cloud_pct # None =>
        /\ \A j \in SclCalls :
              calls[j].ret = "dict" => (~Admitted(calls[j].idx) <=> Exceeds(j))
        /\ stats.cloud_filtered =
              Cardinality({j \in SclCalls : calls[j].ret = "dict" /\ Exceeds(j)})

\* A finished run that rejected one acquisition and admitted one whose
\* cloud fraction equals the threshold.
C6_Witness ==
    /\ pc = "done"
    /\ max_cloud_pct = 10
    /\ stats.cloud_filtered = 1
    /\ \E j \in SclCalls :
          /\ calls[j].ret = "dict"
          /\ 100 * CountGE(calls[j].data, CloudClass) = 10 * CountGE(calls[j].data, 0)
          /\ CountGE(calls[j].data, 0) > 0
          /\ \E f \in FileCalls : calls[f].idx = calls[j].idx /\ calls[f].saved

\* C7: fail-open.  With cloud filtering enabled, an acquisition whose
\* classification clip returned None is not rejected, is not counted in
\* cloud_filtered, and has every requested asset clipped by a run that
\* returns.
C7_FailOpen ==
    /\ \A j \in SclCalls :
          (calls[j].raised = "" /\ calls[j].ret = "None") =>
              /\ Admitted(calls[j].idx)
              /\ pc = "done" =>
                    \A a \in Requested :
                        \E f \in FileCalls :
                            calls[f].idx = calls[j].idx /\ calls[f].asset = a
    /\ stats.cloud_filtered =
          Cardinality({j \in SclCalls : calls[j].raised = "" /\ ~Admitted(calls[j].idx)})

\* A finished run in which a classification clip returned None and the
\* acquisition's asset was written.
C7_Witness ==
    /\ pc = "done"
    /\ \E j \in SclCalls :
          /\ calls[j].raised = ""
          /\ calls[j].ret = "None"
          /\ \E f \in FileCalls : calls[f].idx = calls[j].idx /\ calls[f].saved

\* C8: with max_cloud_pct None no classification layer is requested (no
\* clip of 'SCL' unless it is a requested asset), cloud_filtered stays 0 and
\* every geometrically filtered acquisition has every requested asset
\* clipped by a run that returns.
C8_DisabledSkipsFilter ==
    max_cloud_pct = None =>
        /\ SclCalls = {}
        /\ \A j \in DOMAIN calls : calls[j].asset = "SCL" => "SCL" \in Requested
        /\ stats.cloud_filtered = 0
        /\ pc = "done" =>
              \A idx \in 1..Len(filtered_items) : \A a \in Requested :
                  \E f \in FileCalls : calls[f].idx = idx /\ calls[f].asset = a

\* A finished run without cloud filtering over two acquisitions.
C8_Witness ==
    /\ pc = "done"
    /\ max_cloud_pct = None
    /\ Len(filtered_items) = 2
    /\ Len(calls) = 2 * Len(assets)

\* The grid points of a rectangle, boundary included.
GridPoints(r) == (r.xmin..r.xmax) \X (r.ymin..r.ymax)

\* Every point of g is a point of footprint.
Covers(footprint, g) == GridPoints(g) \subseteq GridPoints(footprint)

\* The place of an acquisition in the query result.
ItemPos(it) == CHOOSE n \in DOMAIN items : items[n] = it

\* The geometric filter has run.
Filtered == pc \notin {"geom", "search", "filter"} /\ bbox_geom # NoRect

\* C9 (result): filter_items_by_geometry returns exactly the acquisitions
\* whose footprint contains the whole query geometry, in input order.
C9_ExactlyContaining ==
    Filtered =>
        /\ \A n \in DOMAIN items :
              (\E m \in DOMAIN filtered_items : filtered_items[m] = items[n])
                  <=> Covers(items[n].geometry, bbox_geom)
        /\ \A m \in DOMAIN filtered_items :
              \E n \in DOMAIN items : items[n] = filtered_items[m]
        /\ \A m1, m2 \in DOMAIN filtered_items :
              m1 < m2 => ItemPos(filtered_items[m1]) < ItemPos(filtered_items[m2])

\* C9: filter_items_by_geometry returns exactly the input acquisitions whose
\* footprint contains the whole query geometry (overlapping or disjoint
\* footprints are excluded), in input order, and leaves the input list and
\* its acquisitions as they were.
C9_ContainmentFilter ==
    /\ []C9_ExactlyContaining
    /\ [][pc = "filter" => items' = items /\ bbox_geom' = bbox_geom]_vars

\* The filter kept one of two acquisitions: the other one's footprint
\* overlaps the query geometry without containing it.
C9_Witness ==
    /\ Filtered
    /\ Len(items) = 2
    /\ Len(filtered_items) = 1
    /\ \E n \in DOMAIN items :
          /\ ~Covers(items[n].geometry, bbox_geom)
          /\ Contains_Overlap(items[n].geometry, bbox_geom)

\* C10: every file a run writes for asset a is created directly inside the
\* directory {prefix}/{a}/ the run created, for every output prefix.
C10_FilesInsideAssetDir ==
    \A p \in DOMAIN fs.files :
        /\ Parent(p) = prefix \o <<fs.files[p].asset>>
        /\ Parent(p) \in fs.dirs

\* C11: within one run, two distinct acquisitions never produce the same
\* output file path for the same asset.
C11_DistinctOutputPaths ==
    \A j1, j2 \in FileCalls :
        ( /\ calls[j1].out_file # <<>>
          /\ calls[j2].out_file # <<>>
          /\ calls[j1].asset = calls[j2].asset
          /\ calls[j1].id # calls[j2].id )
        => calls[j1].out_file # calls[j2].out_file

\* The two rectangles share interior on both axes, stated on interval ends.
Overlap(b, s) ==
    /\ Max(b.xmin, s.xmin) < Min(b.xmax, s.xmax)
    /\ Max(b.ymin, s.ymin) < Min(b.ymax, s.ymax)

C13_BundleOrFile ==
    \A j \in DOMAIN calls :
        LET c == calls[j]
        IN  /\ c.ret = "dict" => c.return_data_dic /\ c.read
            /\ (c.return_data_dic /\ c.read) => c.ret = "dict"
            /\ c.return_data_dic => ~c.touched /\ c.out_file = <<>>
            /\ (c.out_file # <<>> \/ c.touched) => c.ret = "None"

\* A direct call with both flags set returned the bundle and left the
\* filesystem alone.
C13_Witness ==
    /\ pc = "returned"
    /\ \E j \in DOMAIN calls :
          /\ calls[j].return_data_dic
          /\ calls[j].save_tiff
          /\ calls[j].ret = "dict"
          /\ ~calls[j].touched

\* The calls made for acquisition n of filtered_items, in call order.
CallsOf(n) == SelectSeq(calls, LAMBDA c : c.idx = n)

\* The loop is past acquisition n.
Finished(n) == pc = "done" \/ (pc \in {"cloud", "asset"} /\ n < i)

\* The number of classification-layer clips one acquisition gets.
SclPerItem == IF max_cloud_pct # None THEN 1 ELSE 0

\* C14 (state): the history of clip calls follows the list order of the
\* filtered acquisitions; the calls of one acquisition are, with cloud
\* filtering enabled, one in-memory clip of the classification layer first,
\* and then the requested assets in request order, each once, in file mode;
\* a finished acquisition has either all of its asset clips or, when it was
\* rejected, none; a finished run made N + (N - cloud_filtered) * |assets|
\* calls with cloud filtering and N * |assets| without.
C14_CallOrder ==
    /\ \A j1, j2 \in DOMAIN calls : j1 < j2 => calls[j1].idx <= calls[j2].idx
    /\ \A j \in DOMAIN calls :
          /\ calls[j].idx \in DOMAIN filtered_items
          /\ calls[j].id = filtered_items[calls[j].idx].id
          /\ calls[j].idx <= i
    /\ \A n \in DOMAIN filtered_items :
          LET cs == CallsOf(n)
              nscl == IF cs = <<>> THEN 0 ELSE SclPerItem
          IN  /\ \A m \in 1..nscl :
                    /\ cs[m].asset = "SCL"
                    /\ cs[m].return_data_dic
                    /\ ~cs[m].save_tiff
              /\ Len(cs) - nscl <= Len(assets)
              /\ \A m \in (nscl + 1)..Len(cs) :
                    /\ cs[m].asset = assets[m - nscl]
                    /\ ~cs[m].return_data_dic
                    /\ cs[m].save_tiff
              /\ Finished(n) =>
                    \/ Len(cs) = SclPerItem + Len(assets)
                    \/ /\ Len(cs) = 1
                       /\ SclPerItem = 1
                       /\ cs[1].ret = "dict"
                       /\ Exceeds(CHOOSE j \in DOMAIN calls : calls[j] = cs[1])
    /\ pc = "done" =>
          Len(calls) = SclPerItem * Len(filtered_items)
                         + (Len(filtered_items) - stats.cloud_filtered) * Len(assets)

\* C14: download_images processes the filtered acquisitions one at a time
\* in list order, one classification-layer clip per acquisition before its
\* asset clips when cloud filtering is enabled, each requested asset of an
\* admitted acquisition clipped once in request order in file mode; every
\* step adds at most one call to the history and never rewrites it.
C14_OneAtATime ==
    /\ []C14_CallOrder
    /\ [][ \/ calls' = calls
           \/ /\ Len(calls') = Len(calls) + 1
              /\ SubSeq(calls', 1, Len(calls)) = calls
              /\ calls'[Len(calls')].idx = i ]_vars

\* A finished run with cloud filtering over two acquisitions and two
\* requested assets: one acquisition was rejected after its classification
\* clip, the other had both assets clipped after its own.
C14_Witness ==
    /\ pc = "done"
    /\ max_cloud_pct # None
    /\ Len(filtered_items) = 2
    /\ Len(assets) = 2
    /\ stats.cloud_filtered = 1
    /\ Len(calls) = 4

\* C15 (state): at most one catalog query is made in a run, with
\* collections = [collection], intersects = the search geometry and
\* datetime = the date range; a run past the search made exactly one; a run
\* whose catalog failed has ended with that exception, without statistics
\* and without any clip call.
C15_OneQueryNoClip ==
    /\ Len(queries) <= 1
    /\ \A n \in DOMAIN queries :
          queries[n] = [collections |-> <<"sentinel-2-l2a">>,
                        intersects |-> bbox_geom,
                        datetime |-> "2014-08-01/2023-01-31"]
    /\ pc \in {"filter", "mkdirs", "cloud", "asset", "done"} => Len(queries) = 1
    /\ error = "ConnectionError" =>
          /\ pc = "raised"
          /\ calls = <<>>
          /\ stats = NewStats
          /\ items = <<>>

\* C15: search_stac_items performs exactly one catalog query and never
\* retries; a failure of the catalog propagates, and download_images ends
\* with it for good: no statistics, no clip, no further query.
C15_SearchFailurePropagates ==
    /\ []C15_OneQueryNoClip
    /\ [][error = "ConnectionError" =>
             pc' = "raised" /\ queries' = queries /\ calls' = calls]_vars

\* The one query of a run failed and the run ended with the exception.
C15_Witness ==
    /\ error = "ConnectionError"
    /\ pc = "raised"
    /\ Len(queries) = 1
    /\ calls = <<>>

\* C16 (state): a run whose geometric filter left no acquisition is at the
\* directory step or has returned, without error and without any clip
\* call, with total_images = 0 and cloud_filtered = 0; once returned, the
\* keys of asset_counts are exactly the requested assets, each at 0.
C16_EmptyStats ==
    (pc \in {"mkdirs", "cloud", "asset", "done"} /\ filtered_items = <<>>) =>
        /\ pc \in {"mkdirs", "done"}
        /\ error = ""
        /\ calls = <<>>
        /\ stats.total_images = 0
        /\ stats.cloud_filtered = 0
        /\ pc = "done" =>
              /\ DOMAIN stats.asset_counts = Requested
              /\ \A a \in Requested : stats.asset_counts[a] = 0

C16_WitnessNoneFound ==
    /\ pc = "done"
    /\ items = <<>>
    /\ Len(queries) = 1

\* C17 (state): after a normal return the directory {prefix} and the
\* directory {prefix}/{asset} of every requested asset exist.
C17_DirsExist ==
    pc = "done" =>
        /\ prefix \in fs.dirs
        /\ \A a \in Requested : Join(prefix, <<a>>) \in fs.dirs

\* C17: after download_images returns normally, {prefix} and
\* {prefix}/{asset} exist for every requested asset, however many
\* acquisitions were admitted; no step removes a directory or a file, and
\* the directory step leaves every file as it was.
C17_OutputDirsExist ==
    /\ []C17_DirsExist
    /\ [][ /\ fs.dirs \subseteq fs'.dirs
           /\ DOMAIN fs.files \subseteq DOMAIN fs'.files
           /\ pc = "mkdirs" => fs'.files = fs.files ]_vars

\* A run that started with {prefix}/visual in place, holding a file, has
\* returned: the file is as it was, the directory of the second asset
\* exists, and a file of the run was written.
C17_Witness ==
    /\ pc = "done"
    /\ Len(assets) = 2
    /\ Join(prefix, <<"visual", "old.tif">>) \in DOMAIN fs.files
    /\ fs.files[Join(prefix, <<"visual", "old.tif">>)] = OldFile
    /\ Join(prefix, <<"B04">>) \in fs.dirs
    /\ \E j \in FileCalls : calls[j].out_file # <<>>

\* The paths of the files the calls of a history wrote.
OutputPaths(cs) == {cs[j].out_file : j \in {m \in DOMAIN cs : cs[m].out_file # <<>>}}

\* C18: a second run of download_images with the same inputs, the same
\* catalog answer and the same collaborator behaviour never ends in an
\* exception, and returns the statistics of the first run, having written
\* the same set of output paths, with no file on disk that the first run
\* had not left.
C18_RerunIsIdempotent ==
    prev.set =>
        /\ pc # "raised"
        /\ OutputPaths(calls) \subseteq OutputPaths(prev.calls)
        /\ DOMAIN fs.files = prev.paths
        /\ pc = "done" =>
              /\ stats = prev.stats
              /\ OutputPaths(calls) = OutputPaths(prev.calls)

\* A second run has returned after writing, over the files of the first
\* run, the files of two acquisitions.
C18_Witness ==
    /\ prev.set
    /\ pc = "done"
    /\ Cardinality(OutputPaths(calls)) = 2
    /\ stats.total_images = 2

\* C19: every region that download_images hands to geometry conversion,
\* catalog search and clipping satisfies xmin < xmax and ymin < ymax: a run
\* with other bounds never gets as far as a search geometry, a query or a
\* clip call.
C19_OnlyProperRegions ==
    (bbox_geom # NoRect \/ queries # <<>> \/ calls # <<>>) =>
        /\ bounds.xmin < bounds.xmax
        /\ bounds.ymin < bounds.ymax

\* C20: an acquisition whose footprint is exactly equal to the query
\* geometry is retained by filter_items_by_geometry.
C20_EqualFootprintRetained ==
    Filtered =>
        \A n \in DOMAIN items :
            items[n].geometry = bbox_geom =>
                \E m \in DOMAIN filtered_items : filtered_items[m] = items[n]

\* The filter ran on a result holding an acquisition whose footprint is
\* the query geometry, and kept it.
C20_Witness ==
    /\ Filtered
    /\ bounds.xmin < bounds.xmax
    /\ \E n \in DOMAIN items :
          /\ items[n].geometry = bbox_geom
          /\ \E m \in DOMAIN filtered_items : filtered_items[m] = items[n]

\* C21: process_frame(frame), called on a started and not stopped
\* Timelapse, returns the string 'Processed: ' followed by the frame.
C21_ProcessFrameReturnsText ==
    \A j \in DOMAIN tl_calls :
        (tl_calls[j].op = "process_frame" /\ tl_calls[j].was_running) =>
            tl_calls[j].ret = "Processed: " \o tl_calls[j].frame

\* The bounds arguments cannot be parsed: not four values, or a value that
\* is no numeral.
BadBounds ==
    \/ Len(cli.argv.bounds) # 4
    \/ \E n \in DOMAIN cli.argv.bounds :
          cli.argv.bounds[n] \notin {"0", "1", "2", "3", "4", "5", "6", "7", "8", "9"}

\* C22: cli.main ends the process with exit status 1 and a message on
\* stderr whenever bounds parsing fails or download_images raises
\* (ValueError, KeyboardInterrupt or any other exception); the completion
\* statistics are printed only when download_images returned normally.
C22_ExitStatus ==
    /\ pc = "exited" =>
          /\ cli.exit_status \in {0, 1}
          /\ (BadBounds \/ error # "") <=> cli.exit_status = 1
    /\ cli.exit_status = 1 => cli.stderr # <<>> /\ cli.stdout = <<>>
    /\ BadBounds => queries = <<>> /\ calls = <<>> /\ bbox_geom = NoRect
    /\ cli.stdout # <<>> =>
          /\ pc = "exited"
          /\ error = ""
          /\ ~BadBounds
          /\ cli.stdout[2] = stats
          /\ cli.stderr = <<>>
    /\ (pc = "exited" /\ error = "" /\ ~BadBounds) => cli.stdout # <<>>

\* The process ended with status 1 after Ctrl+C during the clips, a file
\* being written already.
C22_Witness ==
    /\ pc = "exited"
    /\ error = "KeyboardInterrupt"
    /\ cli.exit_status = 1
    /\ cli.stderr = <<"Operation cancelled by user.">>
    /\ calls # <<>>

\* C23: whenever download_images computes a cloud fraction (the
\* classification data came back), the value is a well-defined percentage
\* between 0 and 100, an empty window included.
C23_CloudPctWellDefined ==
    \A j \in SclCalls :
        calls[j].ret = "dict" =>
            LET p == CloudPct(calls[j].data)
            IN  /\ ~p.nan
                /\ p.den > 0
                /\ 0 <= p.num
                /\ p.num <= 100 * p.den

\* C29: when the classification data returned for an acquisition has no
\* valid pixel, download_images raises no error at the admission test,
\* admits the acquisition, clips every requested asset of it and does not
\* count it in cloud_filtered.
C29_NoValidPixelAdmits ==
    /\ \A j \in SclCalls :
          (calls[j].ret = "dict" /\ CountGE(calls[j].data, 0) = 0) =>
              /\ calls[j].raised = ""
              /\ Admitted(calls[j].idx)
              /\ (pc = "done" \/ calls[j].idx < i) =>
                    \A a \in Requested :
                        \E m \in FileCalls :
                            /\ m > j
                            /\ calls[m].idx = calls[j].idx
                            /\ calls[m].asset = a
    /\ stats.cloud_filtered =
          Cardinality({j \in SclCalls :
                          /\ calls[j].ret = "dict"
                          /\ CountGE(calls[j].data, 0) > 0
                          /\ Exceeds(j)})

\* A finished run with a threshold admitted an acquisition whose
\* classification window is empty and clipped both requested assets of it.
C29_Witness ==
    /\ pc = "done"
    /\ max_cloud_pct # None
    /\ Len(assets) = 2
    /\ stats.cloud_filtered = 0
    /\ \E j \in SclCalls :
          /\ calls[j].ret = "dict"
          /\ calls[j].data = <<>>
          /\ Cardinality({m \in FileCalls : calls[m].idx = calls[j].idx}) = 2

\* C24: clipped_asset changes the filesystem only when save_tiff is true; a
\* call with return_data_dic false and save_tiff false creates no file and
\* no directory.
C24_NoSaveNoChange ==
    \A j \in DOMAIN calls :
        ~calls[j].save_tiff => ~calls[j].touched

\* C25: the href tag of an output file is the acquisition's original,
\* unsigned asset URL; the signed URL is the one the raster is opened with
\* and the one of the in-memory bundle, and it is in no file on disk.
C25_SignedUrlStaysInMemory ==
    /\ \A p \in DOMAIN fs.files :
          LET f == fs.files[p]
          IN  /\ \A n \in DOMAIN f.href : f.href[n] # "sig"
              /\ f.tagged => f.href = <<"https", f.item, f.asset>>
    /\ \A j \in DOMAIN calls :
          /\ calls[j].opened =>
                calls[j].opened_href = <<"https", calls[j].id, calls[j].asset, "sig">>
          /\ calls[j].ret = "dict" =>
                calls[j].href = <<"https", calls[j].id, calls[j].asset, "sig">>

\* A finished run fetched a classification bundle, with its signed URL, and
\* wrote a tagged file.
C25_Witness ==
    /\ pc = "done"
    /\ \E j \in SclCalls : calls[j].ret = "dict" /\ calls[j].href # <<>>
    /\ \E j \in FileCalls :
          /\ calls[j].saved
          /\ calls[j].out_file \in DOMAIN fs.files
          /\ fs.files[calls[j].out_file].tagged
          /\ fs.files[calls[j].out_file].href = <<"https", calls[j].id, calls[j].asset>>

\* C26: across the bounds_to_geom_wgs84 and clipped_asset calls of one
\* process, use_rasterio_bundled_data is executed at most once.
C26_GeoInitAtMostOnce == geo.runs <= 1

\* C27 (state): 0 <= cloud_filtered <= total_images; once the filter ran
\* total_images is the number of filtered acquisitions; at normal return,
\* the requested asset names being pairwise distinct, asset_counts[a] is
\* total_images - cloud_filtered for every requested asset a.
C27_StatsBounds ==
    /\ 0 <= stats.cloud_filtered
    /\ stats.cloud_filtered <= stats.total_images
    /\ pc \in {"mkdirs", "cloud", "asset", "done"} =>
          stats.total_images = Len(filtered_items)
    /\ (pc = "done" /\ \A m1, m2 \in DOMAIN assets :
                          m1 # m2 => assets[m1] # assets[m2]) =>
          \A a \in Requested :
              stats.asset_counts[a] = stats.total_images - stats.cloud_filtered

ItemOf(id) == CHOOSE n \in DOMAIN Catalog : Catalog[n].id = id

\* The classification clips, signed without failure, of acquisitions that
\* have no 'SCL' asset.
SclMissing ==
    {j \in SclCalls : /\ "SCL" \notin Catalog[ItemOf(calls[j].id)].assets
                      /\ calls[j].raised \notin {"CRSError", "SignError"}}

\* C28 (state): with cloud filtering enabled the classification clip of an
\* acquisition without 'SCL' asset raises KeyError; it is the last call of
\* the run, which has ended with that error; the acquisition was not
\* admitted and the files written before are on disk.
C28_MissingSclRaises ==
    \A j \in SclMissing :
        /\ calls[j].raised = "KeyError"
        /\ ~calls[j].touched
        /\ j = Len(calls)
        /\ pc = "raised"
        /\ error = "KeyError"
        /\ ~Admitted(calls[j].idx)
        /\ \A m \in 1..(j - 1) :
              calls[m].out_file # <<>> => calls[m].out_file \in DOMAIN fs.files

\* C28: with cloud filtering enabled, an acquisition without 'SCL' asset
\* does not fail open: the run aborts with the missing-asset error, nothing
\* happens after it (no statistics, no later acquisition), and the files of
\* earlier acquisitions stay on disk.
C28_MissingSclAborts ==
    /\ []C28_MissingSclRaises
    /\ [][pc # "raised" /\ DOMAIN fs.files \subseteq DOMAIN fs'.files]_vars

\* The second acquisition of a run has no 'SCL' asset: the run ended with
\* KeyError, the file of the first acquisition being on disk.
C28_Witness ==
    /\ pc = "raised"
    /\ error = "KeyError"
    /\ SclMissing # {}
    /\ \E m \in FileCalls :
          /\ calls[m].idx = 1
          /\ calls[m].out_file \in DOMAIN fs.files
    /\ calls[Len(calls)].idx = 2
    /\ calls[Len(calls)].asset = "SCL"

\* C30 (state): up to the directory step, and after a failure of the
\* geometry conversion or of the catalog search, the filesystem is the one
\* the run started on: no directory created, no file written.
C30_NothingCreatedYet ==
    (pc \in {"geom", "search", "filter", "mkdirs"} \/ (pc = "raised" /\ calls = <<>>)) =>
        /\ fs \in {InitialFs, PreExisting(prefix)}
        /\ fs = InitialFs => prefix \notin fs.dirs

====
